---- MODULE Spec2Model ----
(***************************************************************************)
(* Shor's algorithm for N = 15 in three variants (Cirq, Pyquil, Qiskit):   *)
(* the modular-multiplication permutation, the controlled modular          *)
(* exponentiation, the QFT gate sequence and the classical post-processing *)
(* that turns measurement samples into a period and a factor pair.         *)
(***************************************************************************)
EXTENDS Integers, Sequences, FiniteSets, TLC

\* ------------------------------------------------------------------------
\* Bounds of the model
\* ------------------------------------------------------------------------
MaxN == 15       \* moduli 2..MaxN (the scripts use N = 15)
MaxExp == 2      \* exponent-register widths 1..MaxExp (the scripts use n = 2)
MaxShots == 3    \* repetitions 1..MaxShots (the scripts use 100)
MaxMult == 16    \* multipliers 0..MaxMult of the permutation builder
MaxWork == 4     \* work-register widths 0..MaxWork of the permutation builder
MaxQft == 4      \* QFT register sizes 1..MaxQft

Variants == {"Cirq", "Pyquil", "Qiskit"}

VARIABLES
    variant,            \* which script runs
    N, b, n,            \* modulus, base, exponent-register width
    repetitions,        \* number of shots asked of the simulator
    all_measurements,   \* the shots returned so far, each a sequence of n bits
    counts,             \* Pyquil/Qiskit: bit-string -> count, in insertion order
    candidate_counts,   \* candidate period -> count, in insertion order
    idx,                \* position of the running loop
    pc,                 \* position in the script
    r, factor1, factor2,\* selected period and the computed factors
    outcome,            \* what the script reports
    c, k, M, Minv,      \* permutation builder: multiplier, width, operators
    x, work, gates,     \* exponentiation: exponent bits, work value, gate list
    gen, prog, psi      \* QFT: generator, gate program, state as a sum of terms

vars == <<variant, N, b, n, repetitions, all_measurements, counts,
          candidate_counts, idx, pc, r, factor1, factor2, outcome,
          c, k, M, Minv, x, work, gates, gen, prog, psi>>

postVars == <<repetitions, all_measurements, counts, candidate_counts,
              r, factor1, factor2, outcome>>
permVars == <<c, k, M, Minv>>
expVars == <<x, work, gates>>
qftVars == <<gen, prog, psi>>

\* ------------------------------------------------------------------------
\* Integer helpers of the Python runtime
\* ------------------------------------------------------------------------
Abs(a) == IF a < 0 THEN -a ELSE a

RECURSIVE Euclid(_, _)
Euclid(a, d) == IF d = 0 THEN a ELSE Euclid(d, a % d)

\* math.gcd: non-negative, gcd(0, a) = |a|
gcd(a, d) == Euclid(Abs(a), Abs(d))

\* pow(base, e, m): binary modular exponentiation
RECURSIVE pow(_, _, _)
pow(base, e, m) ==
    IF e = 0 THEN 1 % m
    ELSE LET h == pow(base, e \div 2, m)
             s == (h * h) % m
         IN  IF e % 2 = 0 THEN s ELSE (s * (base % m)) % m

\* math.ceil(math.log(N, 2))
RECURSIVE CeilLog2(_, _)
CeilLog2(m, e) == IF 2 ^ e >= m THEN e ELSE CeilLog2(m, e + 1)

required_work_qubits(m) == CeilLog2(m, 0)

Max2(a, d) == IF a >= d THEN a ELSE d

\* work_qubits = max(min_work, 4); Pyquil fixes the register [2,3,4,5]
work_qubits(v, m) == IF v = "Pyquil" THEN 4 ELSE Max2(required_work_qubits(m), 4)

\* ------------------------------------------------------------------------
\* fractions.Fraction
\* ------------------------------------------------------------------------
\* Fraction(y_val / q): the float y_val / q is exact (q is a power of two),
\* and Fraction(float) stores it in lowest terms.
FractionRaw(num, den) == [numerator |-> num, denominator |-> den]

Fraction(num, den) ==
    LET g == gcd(num, den)
    IN  [numerator |-> num \div g, denominator |-> den \div g]

\* |u - v| <= |w - v| for fractions, by cross-multiplication
CloserOrEqual(u, w, v) ==
    Abs(u.numerator * v.denominator - v.numerator * u.denominator) * w.denominator
      <= Abs(w.numerator * v.denominator - v.numerator * w.denominator) * u.denominator

\* the while-loop of limit_denominator
RECURSIVE ConvergentLoop(_, _, _, _, _, _, _)
ConvergentLoop(p0, q0, p1, q1, nn, dd, max_denominator) ==
    LET a == nn \div dd
        q2 == q0 + a * q1
    IN  IF q2 > max_denominator
        THEN [p0 |-> p0, q0 |-> q0, p1 |-> p1, q1 |-> q1]
        ELSE ConvergentLoop(p1, q1, p0 + a * p1, q2, dd, nn - a * dd, max_denominator)

limit_denominator(f, max_denominator) ==
    IF f.denominator <= max_denominator THEN f
    ELSE LET s == ConvergentLoop(0, 1, 1, 0, f.numerator, f.denominator, max_denominator)
             kk == (max_denominator - s.q0) \div s.q1
             bound1 == Fraction(s.p0 + kk * s.p1, s.q0 + kk * s.q1)
             bound2 == Fraction(s.p1, s.q1)
         IN  IF CloserOrEqual(bound2, bound1, f) THEN bound2 ELSE bound1

\* ------------------------------------------------------------------------
\* Converting a measurement to the integer y
\* ------------------------------------------------------------------------
\* Cirq: for bit in meas: y_val = (y_val << 1) | bit
RECURSIVE ShiftOr(_, _, _)
ShiftOr(meas, i, y_val) ==
    IF i > Len(meas) THEN y_val ELSE ShiftOr(meas, i + 1, 2 * y_val + meas[i])

RECURSIVE int2_little_endian(_)
int2_little_endian(bitstring) ==
    IF Len(bitstring) = 0 THEN 0
    ELSE bitstring[1] + 2 * int2_little_endian(Tail(bitstring))

\* Pyquil/Qiskit: int(outcome, 2) of the bit-string, first character most significant
RECURSIVE int2(_)
int2(bitstring) ==
    IF Len(bitstring) = 0 THEN 0
    ELSE bitstring[1] * 2 ^ (Len(bitstring) - 1) + int2(Tail(bitstring))

\* ------------------------------------------------------------------------
\* Period extractor
\* ------------------------------------------------------------------------
r_candidate_numerator(y_val, q) == limit_denominator(Fraction(y_val, q), q).numerator

r_candidate(y_val, q) == limit_denominator(Fraction(y_val, q), q).denominator

ValidNoTrivialTest(rc, base, m) == rc < m /\ rc % 2 = 0

\* the validation of a candidate period
Valid(rc, base, m) ==
    /\ ~(rc >= m \/ rc % 2 # 0)
    /\ pow(base, rc \div 2, m) # m - 1

Keys(table) == {table[i].key : i \in 1..Len(table)}

Get(table, key) ==
    IF key \in Keys(table)
    THEN (CHOOSE i \in 1..Len(table) : table[i].key = key)
    ELSE 0

Count(table, key) == IF key \in Keys(table) THEN table[Get(table, key)].count ELSE 0

\* table[key] += amount on an insertion-ordered dict / Counter
Add(table, key, amount) ==
    IF key \in Keys(table)
    THEN [table EXCEPT ![Get(table, key)].count = @ + amount]
    ELSE Append(table, [key |-> key, count |-> amount])

\* ------------------------------------------------------------------------
\* Factor resolver
\* ------------------------------------------------------------------------
MostCommonLast(table) ==
    CHOOSE i \in 1..Len(table) :
        /\ \A j \in 1..Len(table) : table[j].count <= table[i].count
        /\ \A j \in (i + 1)..Len(table) : table[j].count < table[i].count

\* most_common(1)[0] and max(items, key=count): the first item, in iteration
\* order, whose count is maximal
MostCommon(table) ==
    CHOOSE i \in 1..Len(table) :
        /\ \A j \in 1..Len(table) : table[j].count <= table[i].count
        /\ \A j \in 1..(i - 1) : table[j].count < table[i].count

FactorSame(m, modulus) == gcd(m - 1, modulus)

Factor1(m, modulus) == gcd(m - 1, modulus)

Factor2(m, modulus) == gcd(m + 1, modulus)

\* Cirq checks the pair before reporting it; Pyquil and Qiskit print it as is
Report(v, f1, f2, modulus) ==
    IF v = "Cirq"
    THEN IF f1 \notin {1, modulus} /\ f2 \notin {1, modulus}
         THEN "Factors" ELSE "TrivialFailure"
    ELSE "Factors"

\* ------------------------------------------------------------------------
\* The script: run, post-process, resolve
\* ------------------------------------------------------------------------
Bits(len) == [1..len -> {0, 1}]

IdlePerm == c = 0 /\ k = 0 /\ M = {} /\ Minv = {}
IdleExp == x = <<>> /\ work = 0 /\ gates = <<>>
IdleQft == gen = "none" /\ prog = <<>> /\ psi = <<>>
IdlePost ==
    /\ repetitions = 0 /\ all_measurements = <<>> /\ counts = <<>>
    /\ candidate_counts = <<>> /\ r = 0 /\ factor1 = 0 /\ factor2 = 0
    /\ outcome = "none"

Init ==
    /\ variant \in Variants
    /\ N \in 2..MaxN
    /\ b \in 1..(N - 1)
    /\ n \in 1..MaxExp
    /\ (variant # "Cirq" => n = 2)
    /\ repetitions \in 1..MaxShots
    /\ all_measurements = <<>>
    /\ counts = <<>>
    /\ candidate_counts = <<>>
    /\ idx = 0
    /\ pc = "run"
    /\ r = 0 /\ factor1 = 0 /\ factor2 = 0
    /\ outcome = "none"
    /\ IdlePerm /\ IdleExp /\ IdleQft

\* the simulator returns one more shot of the exponent register
Measure ==
    /\ pc = "run"
    /\ Len(all_measurements) < repetitions
    /\ \E meas \in Bits(n) :
         all_measurements' = Append(all_measurements, meas)
    /\ UNCHANGED <<variant, N, b, n, repetitions, counts, candidate_counts, idx,
                   pc, r, factor1, factor2, outcome>>
    /\ UNCHANGED <<permVars, expVars, qftVars>>

\* all shots are in: Cirq post-processes them one by one, Pyquil and Qiskit
\* first combine them into counts
RunDone ==
    /\ pc = "run"
    /\ Len(all_measurements) = repetitions
    /\ pc' = IF variant = "Cirq" THEN "extract" ELSE "count"
    /\ idx' = 1
    /\ UNCHANGED <<variant, N, b, n, postVars, permVars, expVars, qftVars>>

\* Pyquil: counts[bitstring] += 1. Qiskit: result.get_counts(), whose key order
\* is the backend's; it is taken in order of first occurrence, and the shots
\* themselves arrive in any order.
CountOutcome ==
    /\ pc = "count"
    /\ idx <= Len(all_measurements)
    /\ counts' = Add(counts, all_measurements[idx], 1)
    /\ idx' = idx + 1
    /\ UNCHANGED <<variant, N, b, n, repetitions, all_measurements,
                   candidate_counts, pc, r, factor1, factor2, outcome>>
    /\ UNCHANGED <<permVars, expVars, qftVars>>

CountDone ==
    /\ pc = "count"
    /\ idx > Len(all_measurements)
    /\ pc' = "extract"
    /\ idx' = 1
    /\ UNCHANGED <<variant, N, b, n, postVars, permVars, expVars, qftVars>>

\* Cirq: one iteration of "for meas in all_measurements"
ExtractShot ==
    /\ pc = "extract" /\ variant = "Cirq"
    /\ idx <= Len(all_measurements)
    /\ LET y_val == ShiftOr(all_measurements[idx], 1, 0)
           rc == r_candidate(y_val, 2 ^ n)
       IN  candidate_counts' =
             IF Valid(rc, b, N) THEN Add(candidate_counts, rc, 1)
             ELSE candidate_counts
    /\ idx' = idx + 1
    /\ UNCHANGED <<variant, N, b, n, repetitions, all_measurements, counts,
                   pc, r, factor1, factor2, outcome>>
    /\ UNCHANGED <<permVars, expVars, qftVars>>

\* Pyquil, Qiskit: one iteration of "for outcome, count in counts.items()"
ExtractCount ==
    /\ pc = "extract" /\ variant # "Cirq"
    /\ idx <= Len(counts)
    /\ LET y_val == int2(counts[idx].key)
           rc == r_candidate(y_val, 2 ^ n)
       IN  candidate_counts' =
             IF Valid(rc, b, N) THEN Add(candidate_counts, rc, counts[idx].count)
             ELSE candidate_counts
    /\ idx' = idx + 1
    /\ UNCHANGED <<variant, N, b, n, repetitions, all_measurements, counts,
                   pc, r, factor1, factor2, outcome>>
    /\ UNCHANGED <<permVars, expVars, qftVars>>

ExtractDone ==
    /\ pc = "extract"
    /\ idx > (IF variant = "Cirq" THEN Len(all_measurements) ELSE Len(counts))
    /\ pc' = "resolve"
    /\ UNCHANGED <<variant, N, b, n, idx, postVars, permVars, expVars, qftVars>>

\* if candidate_counts: select the period, compute and report the factors
Resolve ==
    /\ pc = "resolve"
    /\ candidate_counts # <<>>
    /\ LET sel == candidate_counts[MostCommon(candidate_counts)].key
           mod_val == pow(b, sel \div 2, N)
           f1 == Factor1(mod_val, N)
           f2 == Factor2(mod_val, N)
       IN  /\ r' = sel
           /\ factor1' = f1
           /\ factor2' = f2
           /\ outcome' = Report(variant, f1, f2, N)
    /\ pc' = "done"
    /\ UNCHANGED <<variant, N, b, n, idx, repetitions, all_measurements, counts,
                   candidate_counts>>
    /\ UNCHANGED <<permVars, expVars, qftVars>>

ResolveEmptyReports ==
    /\ pc = "resolve"
    /\ candidate_counts = <<>>
    /\ r' = 0
    /\ factor1' = Factor1(pow(b, 0, N), N)
    /\ factor2' = Factor2(pow(b, 0, N), N)
    /\ outcome' = "Factors"
    /\ pc' = "done"
    /\ UNCHANGED <<variant, N, b, n, idx, repetitions, all_measurements, counts,
                   candidate_counts>>
    /\ UNCHANGED <<permVars, expVars, qftVars>>

\* else: no valid candidate period
ResolveEmpty ==
    /\ pc = "resolve"
    /\ candidate_counts = <<>>
    /\ outcome' = "NoPeriodFailure"
    /\ pc' = "done"
    /\ UNCHANGED <<variant, N, b, n, idx, repetitions, all_measurements, counts,
                   candidate_counts, r, factor1, factor2>>
    /\ UNCHANGED <<permVars, expVars, qftVars>>

Next ==
    \/ Measure
    \/ RunDone
    \/ CountOutcome
    \/ CountDone
    \/ ExtractShot
    \/ ExtractCount
    \/ ExtractDone
    \/ Resolve
    \/ ResolveEmpty

Spec == Init /\ [][Next]_vars

\* ------------------------------------------------------------------------
\* Reference arithmetic of the properties
\* ------------------------------------------------------------------------
\* a^e mod m by repeated multiplication
RECURSIVE PowMod(_, _, _)
PowMod(a, e, m) == IF e = 0 THEN 1 % m ELSE (a * PowMod(a, e - 1, m)) % m

\* ------------------------------------------------------------------------
\* Modular permutation builder (specification SpecPerm)
\* ------------------------------------------------------------------------
PermutationNoFixedTail(mult, modulus, num_work_qubits) ==
    {<<(mult * y) % modulus, y>> : y \in 0..(2 ^ num_work_qubits - 1)}

\* dynamic_permutation_matrix: the set of <<row, column>> whose entry is 1
dynamic_permutation_matrix(mult, modulus, num_work_qubits) ==
    LET dim == 2 ^ num_work_qubits
    IN  {<<IF y < modulus THEN (mult * y) % modulus ELSE y, y>> : y \in 0..(dim - 1)}

\* the basis state the operator U sends |y> to: the row of the entry of column y
Apply(U, y) == CHOOSE row \in {e[1] : e \in U} : <<row, y>> \in U

IdleScript ==
    /\ variant = "none" /\ b = 0 /\ n = 0 /\ IdlePost

InitPerm ==
    /\ N \in 1..MaxN
    /\ c \in 0..MaxMult
    /\ k \in 0..MaxWork
    /\ 2 ^ k >= N
    /\ M = {} /\ Minv = {}
    /\ pc = "build"
    /\ idx = 0 /\ work = 0
    /\ x = <<>> /\ gates = <<>>
    /\ IdleScript /\ IdleQft

\* U = dynamic_permutation_matrix(c, N, k)
BuildPermutation ==
    /\ pc = "build"
    /\ M' = dynamic_permutation_matrix(c, N, k)
    /\ pc' = "built"
    /\ UNCHANGED <<variant, N, b, n, idx, postVars, c, k, Minv, expVars, qftVars>>

\* the operator of a modular inverse of c, when c has one
BuildInverse ==
    /\ pc = "built"
    /\ \E cinv \in 0..MaxMult :
         /\ (c * cinv) % N = 1
         /\ Minv' = dynamic_permutation_matrix(cinv, N, k)
    /\ pc' = "inverse"
    /\ UNCHANGED <<variant, N, b, n, idx, postVars, c, k, M, expVars, qftVars>>

\* apply the operator of c, then the operator of its inverse, to |y>
ApplyBoth ==
    /\ pc = "inverse"
    /\ \E y \in 0..(2 ^ k - 1) :
         /\ idx' = y
         /\ work' = Apply(Minv, Apply(M, y))
    /\ pc' = "applied"
    /\ UNCHANGED <<variant, N, b, n, postVars, permVars, x, gates, qftVars>>

NextPerm ==
    \/ BuildPermutation
    \/ BuildInverse
    \/ ApplyBoth

SpecPerm == InitPerm /\ [][NextPerm]_vars

\* C1: the operator is a permutation matrix: exactly one 1 in every column
\* and exactly one 1 in every row, for every c, N >= 1 and k with 2^k >= N.
C1_PermutationMatrix ==
    pc # "build" =>
        LET Dim == 0..(2 ^ k - 1)
        IN  /\ \A col \in Dim : Cardinality({e \in M : e[2] = col}) = 1
            /\ \A row \in Dim : Cardinality({e \in M : e[1] = row}) = 1

\* C10: the operator of c followed by the operator of a modular inverse of c
\* returns every basis index y < N to itself and leaves every y >= N fixed.
C10_InverseComposesToIdentity ==
    /\ pc = "applied" => work = idx
    /\ pc \in {"inverse", "applied"} =>
         \A y \in N..(2 ^ k - 1) : Apply(M, y) = y /\ Apply(Minv, y) = y

\* an index below N that the operator of c moves and the inverse brings back
C10_Witness ==
    /\ pc = "applied" /\ idx < N /\ N < 2 ^ k
    /\ Apply(M, idx) # idx
    /\ work = idx

\* ------------------------------------------------------------------------
\* Controlled modular exponentiation (specification SpecExp)
\* ------------------------------------------------------------------------
MaxExpWidth == 3     \* exponent-register widths 1..MaxExpWidth of the Cirq composer

c_j_linear(base, j, modulus) == pow(base, 2 * j, modulus)

\* c_j = pow(b, 2 ** j, N)
c_j(base, j, modulus) == pow(base, 2 ^ j, modulus)

\* c0 = pow(b, 1, N)
c0(base, modulus) == pow(base, 1, modulus)

\* c1 = pow(b, 2, N)
c1(base, modulus) == pow(base, 2, modulus)

Gate(control, U) == [control |-> control, U |-> U]

\* Cirq: for j, control_qubit in enumerate(first_reg)
RECURSIVE CirqGates(_, _, _, _)
CirqGates(j, width, base, modulus) ==
    IF j >= width THEN <<>>
    ELSE <<Gate(j, dynamic_permutation_matrix(c_j(base, j, modulus), modulus,
                                              work_qubits("Cirq", modulus)))>>
         \o CirqGates(j + 1, width, base, modulus)

\* the controlled gates in the order they are appended; Pyquil and Qiskit
\* write out the two gates of a 2-qubit exponent register
build_modular_exponentiation(v, width, base, modulus) ==
    IF v = "Cirq" THEN CirqGates(0, width, base, modulus)
    ELSE <<Gate(0, dynamic_permutation_matrix(c0(base, modulus), modulus,
                                              work_qubits(v, modulus))),
           Gate(1, dynamic_permutation_matrix(c1(base, modulus), modulus,
                                              work_qubits(v, modulus)))>>

\* the exponent register holds the basis state x (x[j+1] is the bit on
\* position j) and the work register holds the integer 1
InitExp ==
    /\ variant \in Variants
    /\ N \in 2..MaxN
    /\ b \in 0..MaxN
    /\ n \in 1..MaxExpWidth
    /\ (variant # "Cirq" => n = 2)
    /\ x \in Bits(n)
    /\ work = 1
    /\ gates = <<>>
    /\ idx = 0
    /\ pc = "build"
    /\ IdlePost /\ IdlePerm /\ IdleQft

BuildExponentiation ==
    /\ pc = "build"
    /\ gates' = build_modular_exponentiation(variant, n, b, N)
    /\ idx' = 1
    /\ pc' = "apply"
    /\ UNCHANGED <<variant, N, b, n, postVars, permVars, x, work, qftVars>>

\* the next controlled gate: the operator acts on the work register iff the
\* control bit is 1
ApplyGate ==
    /\ pc = "apply"
    /\ idx <= Len(gates)
    /\ work' = IF x[gates[idx].control + 1] = 1
               THEN Apply(gates[idx].U, work) ELSE work
    /\ idx' = idx + 1
    /\ UNCHANGED <<variant, N, b, n, pc, postVars, permVars, x, gates, qftVars>>

NextExp ==
    \/ BuildExponentiation
    \/ ApplyGate

SpecExp == InitExp /\ [][NextExp]_vars

\* the value of the exponent bits on positions 0..(len-1), bit j of weight 2^j
RECURSIVE XValue(_, _)
XValue(bits, len) ==
    IF len = 0 THEN 0 ELSE XValue(bits, len - 1) + bits[len] * 2 ^ (len - 1)

\* C2: from work = 1, the gates applied in increasing j order leave the work
\* register at b^x mod N, and every intermediate work value is in [0, N).
C2_WorkHoldsPower ==
    pc = "apply" =>
        /\ work \in 0..(N - 1)
        /\ work = PowMod(b, XValue(x, idx - 1), N)
        /\ (idx > Len(gates) => work = PowMod(b, XValue(x, n), N))

\* all gates applied, with at least two control bits set
C2_Witness ==
    /\ pc = "apply" /\ idx > Len(gates) /\ n >= 2
    /\ x[1] = 1 /\ x[2] = 1
    /\ b \in 2..(N - 1) /\ gcd(b, N) = 1
    /\ work \notin {0, 1, b}
    /\ work = PowMod(b, XValue(x, n), N)

\* ------------------------------------------------------------------------
\* Quantum Fourier transform (specification SpecQft)
\* ------------------------------------------------------------------------
\* A state of the register is a sum of terms. A term is a basis index, a phase
\* in units of 2*pi / 2^n (an integer modulo 2^n) and the number of factors
\* 1/sqrt(2) of its magnitude. Qubit i of the list has weight 2^(n-1-i) in
\* the basis index: the first qubit is the most significant, the order in
\* which the scripts read the measured bits.
BitOf(index, i, width) == (index \div 2 ^ (width - 1 - i)) % 2

SetBit(index, i, width, v) ==
    index - BitOf(index, i, width) * 2 ^ (width - 1 - i) + v * 2 ^ (width - 1 - i)

HGate(i) == [g |-> "H", q |-> i, t |-> i, den |-> 1]
PhaseGate(i, j, den) == [g |-> "CPHASE", q |-> i, t |-> j, den |-> den]
SwapGate(i, j) == [g |-> "SWAP", q |-> i, t |-> j, den |-> 1]

angle_den_half(i, j) == 2 ^ (j - i + 1)

\* angle = pi / 2 ** (j - i): the denominator of the angle in units of pi
angle_den(i, j) == 2 ^ (j - i)

\* for j in range(i+1, n): CPHASE(angle, qubits[i], qubits[j])
RECURSIVE Rotations(_, _, _)
Rotations(i, j, width) ==
    IF j >= width THEN <<>>
    ELSE <<PhaseGate(i, j, angle_den(i, j))>> \o Rotations(i, j + 1, width)

\* for i in range(n): H(qubits[i]) and its rotations
RECURSIVE Rows(_, _)
Rows(i, width) ==
    IF i >= width THEN <<>>
    ELSE <<HGate(i)>> \o Rotations(i, i + 1, width) \o Rows(i + 1, width)

\* for i in range(n // 2): SWAP(qubits[i], qubits[n-1-i])
RECURSIVE Swaps(_, _)
Swaps(i, width) ==
    IF i >= width \div 2 THEN <<>>
    ELSE <<SwapGate(i, width - 1 - i)>> \o Swaps(i + 1, width)

qft_pyquil(width) == Rows(0, width) \o Swaps(0, width)

\* the twelve gates of the four-qubit circuit; CZPowGate(exponent=e) is a
\* controlled phase of angle pi * e, so 0.5, 0.25, 0.125 are pi/2, pi/4, pi/8
initialize_QFT ==
    << HGate(0), PhaseGate(0, 1, 2), PhaseGate(0, 2, 4), PhaseGate(0, 3, 8),
       HGate(1), PhaseGate(1, 2, 2), PhaseGate(1, 3, 4),
       HGate(2), PhaseGate(2, 3, 2),
       HGate(3),
       SwapGate(1, 2), SwapGate(0, 3) >>

\* H|v> = (|0> + (-1)^v |1>) / sqrt(2): every term becomes two
Hadamard(state, i, width) ==
    [t \in 1..(2 * Len(state)) |->
        LET old == state[(t + 1) \div 2]
            v == BitOf(old.index, i, width)
        IN  IF t % 2 = 1
            THEN [index |-> SetBit(old.index, i, width, 0),
                  phase |-> old.phase,
                  h |-> old.h + 1]
            ELSE [index |-> SetBit(old.index, i, width, 1),
                  phase |-> (old.phase + v * 2 ^ (width - 1)) % 2 ^ width,
                  h |-> old.h + 1]]

\* a phase of pi / den on the terms whose two qubits are both 1
ControlledPhase(state, i, j, den, width) ==
    [t \in 1..Len(state) |->
        IF BitOf(state[t].index, i, width) = 1 /\ BitOf(state[t].index, j, width) = 1
        THEN [state[t] EXCEPT !.phase = (@ + 2 ^ (width - 1) \div den) % 2 ^ width]
        ELSE state[t]]

Swap(state, i, j, width) ==
    [t \in 1..Len(state) |->
        LET vi == BitOf(state[t].index, i, width)
            vj == BitOf(state[t].index, j, width)
        IN  [state[t] EXCEPT
               !.index = SetBit(SetBit(state[t].index, i, width, vj), j, width, vi)]]

Generators == {"qft_pyquil", "initialize_QFT"}

\* the register holds the basis state |x>
InitQft ==
    /\ gen \in Generators
    /\ n \in 1..MaxQft
    /\ (gen = "initialize_QFT" => n = 4)
    /\ x \in 0..(2 ^ n - 1)
    /\ psi = <<[index |-> x, phase |-> 0, h |-> 0]>>
    /\ prog = <<>>
    /\ idx = 0
    /\ pc = "build"
    /\ variant = "none" /\ N = 0 /\ b = 0
    /\ work = 0 /\ gates = <<>>
    /\ IdlePost /\ IdlePerm

BuildQft ==
    /\ pc = "build"
    /\ prog' = IF gen = "qft_pyquil" THEN qft_pyquil(n) ELSE initialize_QFT
    /\ idx' = 1
    /\ pc' = "gates"
    /\ UNCHANGED <<variant, N, b, n, postVars, permVars, expVars, gen, psi>>

ApplyH ==
    /\ pc = "gates" /\ idx <= Len(prog)
    /\ prog[idx].g = "H"
    /\ psi' = Hadamard(psi, prog[idx].q, n)
    /\ idx' = idx + 1
    /\ UNCHANGED <<variant, N, b, n, pc, postVars, permVars, expVars, gen, prog>>

ApplyCPhase ==
    /\ pc = "gates" /\ idx <= Len(prog)
    /\ prog[idx].g = "CPHASE"
    /\ psi' = ControlledPhase(psi, prog[idx].q, prog[idx].t, prog[idx].den, n)
    /\ idx' = idx + 1
    /\ UNCHANGED <<variant, N, b, n, pc, postVars, permVars, expVars, gen, prog>>

ApplySwap ==
    /\ pc = "gates" /\ idx <= Len(prog)
    /\ prog[idx].g = "SWAP"
    /\ psi' = Swap(psi, prog[idx].q, prog[idx].t, n)
    /\ idx' = idx + 1
    /\ UNCHANGED <<variant, N, b, n, pc, postVars, permVars, expVars, gen, prog>>

NextQft ==
    \/ BuildQft
    \/ ApplyH
    \/ ApplyCPhase
    \/ ApplySwap

SpecQft == InitQft /\ [][NextQft]_vars

QftDone == pc = "gates" /\ idx > Len(prog)

RECURSIVE BitsValue(_, _)
BitsValue(meas, len) ==
    IF len = 0 THEN 0 ELSE 2 * BitsValue(meas, len - 1) + meas[len]

YOf(i) == BitsValue(all_measurements[i], n)

\* the denominator of y / 2^n in lowest terms
PeriodOf(i) == (2 ^ n) \div gcd(YOf(i), 2 ^ n)

Accepted(i) ==
    /\ PeriodOf(i) < N
    /\ PeriodOf(i) % 2 = 0
    /\ PowMod(b, PeriodOf(i) \div 2, N) # N - 1

\* the shots the post-processing has gone through
Processed ==
    IF pc \in {"resolve", "done"} THEN 1..Len(all_measurements)
    ELSE IF pc = "extract" /\ variant = "Cirq" THEN 1..(idx - 1)
    ELSE {}

Shots(S) == S \cap (1..Len(all_measurements))

\* C3: every key of the candidate frequency table is below N, even, and has
\* b^(key/2) mod N different from N-1; the selected period is such a key.
C3_TableKeysValidated ==
    /\ \A i \in 1..Len(candidate_counts) :
         LET key == candidate_counts[i].key
         IN  /\ key < N
             /\ key % 2 = 0
             /\ PowMod(b, key \div 2, N) # N - 1
    /\ (pc = "done" /\ outcome # "NoPeriodFailure") =>
         /\ r \in Keys(candidate_counts)
         /\ PowMod(b, r \div 2, N) # N - 1

\* a shot whose candidate has b^(r/2) mod N = N-1 was processed and dropped,
\* while another candidate was recorded
C3_Witness ==
    /\ pc = "done"
    /\ candidate_counts # <<>>
    /\ \E i \in 1..Len(all_measurements) :
         /\ PeriodOf(i) < N /\ PeriodOf(i) % 2 = 0
         /\ PowMod(b, PeriodOf(i) \div 2, N) = N - 1
         /\ PeriodOf(i) \notin Keys(candidate_counts)

\* C4: a factor pair is reported only if both factors are non-trivial; when
\* gcd(m-1, N) or gcd(m+1, N) is 1 or N the result is a failure.
C4_NoTrivialPairReported ==
    (pc = "done" /\ candidate_counts # <<>>) =>
        LET m == PowMod(b, r \div 2, N)
        IN  (gcd(m - 1, N) \in {1, N} \/ gcd(m + 1, N) \in {1, N})
               => outcome = "TrivialFailure"

IsMax(key) ==
    \A j \in 1..Len(candidate_counts) :
        candidate_counts[j].count <= Count(candidate_counts, key)

Tied == {key \in Keys(candidate_counts) : IsMax(key)}

\* the position of the first shot whose accepted candidate is key
FirstShot(key) ==
    CHOOSE i \in 1..Len(all_measurements) :
        /\ Accepted(i) /\ PeriodOf(i) = key
        /\ \A j \in 1..(i - 1) : ~(Accepted(j) /\ PeriodOf(j) = key)

Selected == pc = "done" /\ outcome # "NoPeriodFailure"

\* C5 as stated: the selected period has the highest count, and among the
\* periods that share the highest count it is the smallest.
C5_SmallestAmongTied ==
    (Selected /\ variant \in {"Cirq", "Pyquil"}) =>
        /\ r \in Tied
        /\ \A key \in Tied : r <= key

\* C5 amended: the selected period has the highest count, and among the
\* periods that share the highest count it is the one whose first accepted
\* shot was observed earliest.
C5_FirstObservedAmongTied ==
    (Selected /\ variant \in {"Cirq", "Pyquil"}) =>
        /\ r \in Tied
        /\ \A key \in Tied : FirstShot(r) <= FirstShot(key)

\* two periods tie and the selected one is not the smallest
C5_Witness ==
    /\ Selected /\ variant \in {"Cirq", "Pyquil"}
    /\ Cardinality(Tied) >= 2
    /\ \E key \in Tied : key < r

Scenario == N = 15 /\ b = 8 /\ n = 2

\* C6 as stated: with N = 15, b = 8, n = 2 the table never holds a period
\* other than 4.
C6_OnlyPeriodFour ==
    Scenario => Keys(candidate_counts) \subseteq {4}

\* C6 amended: with N = 15, b = 8, n = 2 the table holds only the periods 2
\* and 4; y = 1 and y = 3 record 4, y = 2 records 2, y = 0 records nothing.
C6_PeriodsTwoAndFour ==
    Scenario =>
        /\ Keys(candidate_counts) \subseteq {2, 4}
        /\ (variant = "Cirq" \/ pc \in {"resolve", "done"}) =>
            /\ Count(candidate_counts, 4)
                 = Cardinality({i \in Processed : YOf(i) \in {1, 3}})
            /\ Count(candidate_counts, 2)
                 = Cardinality({i \in Processed : YOf(i) = 2})

\* all four outcomes were measured and both periods are in the table
C6_Witness ==
    /\ Scenario /\ pc = "done"
    /\ Keys(candidate_counts) = {2, 4}
    /\ \E i \in 1..Len(all_measurements) : YOf(i) = 0

\* C7: when the table is empty after all repetitions the result is the
\* failure "no valid period": no period is selected, no factor is computed.
C7_EmptyTableFails ==
    (pc = "done" /\ candidate_counts = <<>>) =>
        /\ outcome = "NoPeriodFailure"
        /\ r = 0 /\ factor1 = 0 /\ factor2 = 0

\* every shot of a finished run was rejected
C7_Witness ==
    /\ pc = "done" /\ candidate_counts = <<>>
    /\ Len(all_measurements) = repetitions
    /\ \E i \in 1..Len(all_measurements) : YOf(i) = 0
    /\ \E i \in 1..Len(all_measurements) : YOf(i) # 0

\* the multiplicative order of a modulo m (0 if there is none)
Order(a, m) ==
    IF \E e \in 1..m : PowMod(a, e, m) = 1
    THEN CHOOSE e \in 1..m :
           /\ PowMod(a, e, m) = 1
           /\ \A d \in 1..(e - 1) : PowMod(a, d, m) # 1
    ELSE 0

\* C8: for N = 15 and a base b in 2..14 coprime to 15 whose order is even
\* with b^(order/2) mod 15 # 14, a table holding only the order yields the
\* factors {3, 5}.
C8_TruePeriodGivesFactors ==
    (/\ pc = "done" /\ N = 15 /\ b \in 2..14 /\ gcd(b, 15) = 1
     /\ Order(b, 15) % 2 = 0
     /\ PowMod(b, Order(b, 15) \div 2, 15) # 14
     /\ Keys(candidate_counts) = {Order(b, 15)})
       => /\ outcome = "Factors"
          /\ {factor1, factor2} = {3, 5}

\* N = 15, b = 8 and the table holds only the period 4
C8_Witness ==
    /\ pc = "done" /\ N = 15 /\ b = 8
    /\ Keys(candidate_counts) = {4}
    /\ {factor1, factor2} = {3, 5}

\* ------------------------------------------------------------------------
\* Circuit assembly: initialization of the work register (specification
\* SpecCircuit)
\* ------------------------------------------------------------------------
\* The work register is held as the basis index on which the controlled
\* permutation operators act. Cirq's MatrixGate and Pyquil's DefGate take the
\* first listed qubit as the most significant bit of that index; Qiskit's
\* UnitaryGate takes the first listed qubit as the least significant bit.
index_weight(v, pos, width) ==
    IF v = "Qiskit" THEN 2 ^ pos ELSE 2 ^ (width - 1 - pos)

\* second_reg[-1], work_qubits[-1], work_reg[work_qubits - 1]
x_position(v, width) == width - 1

\* the X gate on the qubit of the given weight
XGate(index, weight) ==
    IF (index \div weight) % 2 = 0 THEN index + weight ELSE index - weight

\* all qubits start in |0>; the exponent register is set to the basis state x
InitCircuit ==
    /\ variant \in Variants
    /\ N \in 2..MaxN
    /\ b \in 0..MaxN
    /\ n \in 1..MaxExp
    /\ (variant # "Cirq" => n = 2)
    /\ x \in Bits(n)
    /\ work = 0
    /\ gates = <<>>
    /\ idx = 0
    /\ pc = "init"
    /\ IdlePost /\ IdlePerm /\ IdleQft

\* Step 1: the X gate that is to initialize the work register to |1>
InitializeWork ==
    /\ pc = "init"
    /\ LET width == work_qubits(variant, N)
       IN  work' = XGate(work, index_weight(variant, x_position(variant, width), width))
    /\ pc' = "build"
    /\ UNCHANGED <<variant, N, b, n, idx, postVars, permVars, x, gates, qftVars>>

NextCircuit ==
    \/ InitializeWork
    \/ BuildExponentiation
    \/ ApplyGate

SpecCircuit == InitCircuit /\ [][NextCircuit]_vars

\* after initialization and before the first controlled multiplication
Initialized == pc = "build" \/ (pc = "apply" /\ idx = 1)

\* C11: in every variant the X gate lands on the position of weight 2^0 of
\* the operator's basis index, so the work register holds 1 after
\* initialization and before the first controlled multiplication.
C11_WorkInitializedToOne ==
    Initialized =>
        /\ index_weight(variant, x_position(variant, work_qubits(variant, N)),
                        work_qubits(variant, N)) = 1
        /\ work = 1

\* ------------------------------------------------------------------------
\* Candidate period of one measured integer (specification SpecFraction)
\* ------------------------------------------------------------------------
MaxFracWidth == 5    \* exponent-register widths 1..MaxFracWidth

\* one measured integer y (held in idx) of an n-bit exponent register
InitFraction ==
    /\ N \in 2..MaxN
    /\ b \in 1..(N - 1)
    /\ n \in 1..MaxFracWidth
    /\ idx \in 0..(2 ^ n - 1)
    /\ r = 0
    /\ outcome = "none"
    /\ pc = "approximate"
    /\ variant = "none"
    /\ repetitions = 0 /\ all_measurements = <<>> /\ counts = <<>>
    /\ candidate_counts = <<>> /\ factor1 = 0 /\ factor2 = 0
    /\ IdlePerm /\ IdleExp /\ IdleQft

\* y_over_q = y_val / q; r_candidate = Fraction(y_over_q).limit_denominator(q).denominator
Approximate ==
    /\ pc = "approximate"
    /\ r' = r_candidate(idx, 2 ^ n)
    /\ pc' = "validate"
    /\ UNCHANGED <<variant, N, b, n, idx, repetitions, all_measurements, counts,
                   candidate_counts, factor1, factor2, outcome>>
    /\ UNCHANGED <<permVars, expVars, qftVars>>

\* the validation that decides whether the candidate is counted
Validate ==
    /\ pc = "validate"
    /\ outcome' = IF Valid(r, b, N) THEN "accepted" ELSE "rejected"
    /\ pc' = "done"
    /\ UNCHANGED <<variant, N, b, n, idx, repetitions, all_measurements, counts,
                   candidate_counts, r, factor1, factor2>>
    /\ UNCHANGED <<permVars, expVars, qftVars>>

NextFraction ==
    \/ Approximate
    \/ Validate

SpecFraction == InitFraction /\ [][NextFraction]_vars

\* the greatest d that divides both y and q (q itself when y = 0)
GreatestCommonDivisor(y, q) ==
    CHOOSE d \in 1..q :
        /\ y % d = 0 /\ q % d = 0
        /\ \A e \in (d + 1)..q : ~(y % e = 0 /\ q % e = 0)

\* C12: the candidate period of a measured y in [0, q), q = 2^n, is
\* q / gcd(y, q); it is a power of two that divides q, it is 1 for y = 0, and
\* a sample y = 0 is rejected.
C12_CandidateIsReducedDenominator ==
    pc \in {"validate", "done"} =>
        /\ r = (2 ^ n) \div GreatestCommonDivisor(idx, 2 ^ n)
        /\ \E e \in 0..n : r = 2 ^ e
        /\ (idx = 0 => r = 1)
        /\ (pc = "done" /\ idx = 0) => outcome = "rejected"

\* y = 6 of q = 8 reduces to 3/4 and the candidate 4 is accepted; N = 15, b = 8
C12_Witness ==
    /\ pc = "done" /\ n = 3 /\ idx = 6 /\ N = 15 /\ b = 8
    /\ r = 4
    /\ outcome = "accepted"

\* ------------------------------------------------------------------------
\* The two accumulations on the same shots (specification Spec)
\* ------------------------------------------------------------------------
\* Cirq, lines 152-171: the table after "for meas in all_measurements"
RECURSIVE cirq_candidate_counts(_, _, _, _)
cirq_candidate_counts(shots, q, base, m) ==
    IF shots = <<>> THEN <<>>
    ELSE LET len == Len(shots)
             table == cirq_candidate_counts(SubSeq(shots, 1, len - 1), q, base, m)
             rc == r_candidate(ShiftOr(shots[len], 1, 0), q)
         IN  IF Valid(rc, base, m) THEN Add(table, rc, 1) ELSE table

\* Pyquil, lines 199-204: counts after "for outcome in result"
RECURSIVE pyquil_counts(_)
pyquil_counts(shots) ==
    IF shots = <<>> THEN <<>>
    ELSE Add(pyquil_counts(SubSeq(shots, 1, Len(shots) - 1)), shots[Len(shots)], 1)

\* Pyquil, lines 212-223: the table after "for outcome, count in counts.items()"
RECURSIVE pyquil_candidate_counts(_, _, _, _)
pyquil_candidate_counts(cnts, q, base, m) ==
    IF cnts = <<>> THEN <<>>
    ELSE LET len == Len(cnts)
             table == pyquil_candidate_counts(SubSeq(cnts, 1, len - 1), q, base, m)
             rc == r_candidate(int2(cnts[len].key), q)
         IN  IF Valid(rc, base, m) THEN Add(table, rc, cnts[len].count) ELSE table

RECURSIVE SumCounts(_)
SumCounts(table) ==
    IF table = <<>> THEN 0 ELSE Head(table).count + SumCounts(Tail(table))

\* the shots whose sample the extraction loop has gone through: Cirq takes
\* them one by one, Pyquil one distinct bit-string at a time
ProcessedShots ==
    IF pc \in {"resolve", "done"} THEN 1..Len(all_measurements)
    ELSE IF pc # "extract" THEN {}
    ELSE IF variant = "Cirq" THEN 1..(idx - 1)
    ELSE {i \in 1..Len(all_measurements) :
            \E j \in 1..(idx - 1) : counts[j].key = all_measurements[i]}

\* C13: on the same shots the per-shot accumulation of Cirq and the two-stage
\* accumulation of Pyquil end with the same table in the same insertion order
\* and select the same period; at every step the counts of the table sum to
\* the number of accepted samples processed so far, at most the repetitions.
C13_SameTableBothAccumulations ==
    /\ (variant = "Cirq" /\ pc \in {"resolve", "done"}) =>
          LET other == pyquil_candidate_counts(pyquil_counts(all_measurements),
                                               2 ^ n, b, N)
          IN  /\ candidate_counts = other
              /\ (pc = "done" /\ other # <<>>) => r = other[MostCommon(other)].key
    /\ (variant = "Pyquil" /\ pc \in {"resolve", "done"}) =>
          LET other == cirq_candidate_counts(all_measurements, 2 ^ n, b, N)
          IN  /\ candidate_counts = other
              /\ (pc = "done" /\ other # <<>>) => r = other[MostCommon(other)].key
    /\ variant \in {"Cirq", "Pyquil"} =>
          /\ SumCounts(candidate_counts)
               = Cardinality({i \in ProcessedShots : Accepted(i)})
          /\ SumCounts(candidate_counts) <= repetitions

\* a finished Pyquil run with two periods in the table and two different
\* bit-strings counted under the same period
C13_Witness ==
    /\ variant = "Pyquil" /\ pc = "done"
    /\ Cardinality(Keys(candidate_counts)) = 2
    /\ \E i, j \in 1..Len(all_measurements) :
          /\ YOf(i) # YOf(j)
          /\ Accepted(i) /\ Accepted(j)
          /\ PeriodOf(i) = PeriodOf(j)
    /\ SumCounts(candidate_counts) = repetitions

====
